---------------------------- MODULE Spec2Model ----------------------------
(***************************************************************************)
(* The login bridge: a browser page that takes a launch query from the     *)
(* Obsidian plugin, signs the user in with Google Identity Services,       *)
(* exchanges the Google credential for an Azure session, hydrates salt and *)
(* address from the bridge API and hands all four values back through an   *)
(* obsidian:// deeplink.                                                   *)
(*                                                                         *)
(* Spec is the callback-based App (app/src/types.ts, the App component)    *)
(* with GoogleAuthService, BridgeService, the deeplink utilities and the   *)
(* runtime configuration. SpecRedirect is the redirect-based App           *)
(* (app/src/App.tsx), which sends the browser to Google's authorization    *)
(* URL and is loaded again with the id_token in the hash.                  *)
(*                                                                         *)
(* Strings that are only compared are TLA+ strings; strings that are       *)
(* built into URLs are sequences of one-character strings (an opaque piece *)
(* of such a string, like the client id, is one element).                  *)
(***************************************************************************)
EXTENDS Integers, Sequences, FiniteSets, TLC

VARIABLES
  phase,          \* "load": modules not evaluated; "boot": before the effects run; "live"
  url,            \* window.location: [search, hash]
  env,            \* import.meta.env: [clientId]
  runtimeConfig,  \* config.ts runtimeConfig (NoConfig before getBridgeConfig)
  storage,        \* sessionStorage: [bridge_source, bridge_nonce]
  nonceRef,       \* App's nonceRef.current
  state,          \* App's BridgeState
  gas,            \* googleAuthService: [initialized, scriptLoaded, loadPromise]
  dom,            \* [scripts: script elements appended, button: the GIS button is rendered]
  gis,            \* window.google.accounts.id: [present, nonce, popups, cancels]
  svc,            \* bridgeService: [sessionToken]
  inits,          \* the runs of initializeGoogleSignIn: [nonce, awaits: the promise
                  \* of loadScript, pc, outcome: how that promise settled]
  runs,           \* the handleGoogleCredential runs, in order of their callback
  nav,            \* window.location.href assignments: [url: the last one, kind:
                  \* "deeplink" or "auth" (Google's authorization URL), count]
  hist            \* observation only: [launch: source and nonce of the launch query,
                  \* initLog: the initialize calls, clicks: sign-ins started,
                  \* app: which App component the page runs,
                  \* net: the network calls started, each with the visible URL
                  \* at its start, creds: the callbacks that delivered a
                  \* non-empty credential, hashParses: the calls of
                  \* parseConfigFromHash in this page load, marker: the
                  \* writes and reads of sessionStorage's bridge_source]

vars == <<phase, url, env, runtimeConfig, storage, nonceRef, state, gas, dom, gis,
          svc, inits, runs, nav, hist>>

---------------------------------------------------------------------------
(* Bounds *)

\* Sign-in attempts the user starts on the rendered button in one page load.
MaxClicks == 2

\* loadScript and initialize calls made on googleAuthService on its own.
MaxLoadCalls == 3
MaxInitializeCalls == 2

---------------------------------------------------------------------------
(* Values *)

\* null / undefined of a compared string
Null == "<null>"
\* undefined of an encoded string (a sequence of characters)
Undefined == <<"<undefined>">>
NoData == [none |-> TRUE]
NoConfig == [none |-> TRUE]

\* JavaScript's !s for a compared string and for an encoded string
Falsy(s) == s = Null \/ s = ""
FalsySeq(s) == s = Undefined \/ s = <<>>

Tok1 == <<"t", "o", "k", "1">>
Tok2 == <<"t", "=", "2">>
Sess1 == <<"s", "e", "s", "s", "1">>
Sess2 == <<"s", "&", "2">>
Salt42 == <<"4", "2">>
AddrDead == <<"0", "x", "D", "E", "A", "D">>

\* What the provider hands to the callback as response.credential
Credentials == {Undefined, <<>>, Tok1, Tok2}

\* URLSearchParams of the launch query; Null is an absent parameter.
LaunchQueries ==
  [source : {Null, "obsidian", "other"},
   nonce : {Null, "", "abc123", "n2"},
   redirect : {Null, "true", "1"},
   prompt : {Null, "consent"}]
EmptyQuery == [source |-> Null, nonce |-> Null, redirect |-> Null, prompt |-> Null]

\* The parameters of the URL hash; all Null is the empty hash.
Hashes ==
  [funcKey : {Null, "k1"}, backendUrl : {Null}, clientId : {Null},
   id_token : {Undefined, <<>>, Tok1, Tok2}]
EmptyHash ==
  [funcKey |-> Null, backendUrl |-> Null, clientId |-> Null, id_token |-> Undefined]

\* Responses of POST /.auth/login/google
ExchangeResponses ==
  { [net |-> TRUE, ok |-> TRUE, status |-> 200, statusText |-> "OK",
     authenticationToken |-> Sess1],
    [net |-> TRUE, ok |-> TRUE, status |-> 200, statusText |-> "OK",
     authenticationToken |-> Sess2],
    [net |-> TRUE, ok |-> TRUE, status |-> 200, statusText |-> "OK",
     authenticationToken |-> Undefined],
    [net |-> TRUE, ok |-> FALSE, status |-> 401, statusText |-> "Unauthorized",
     authenticationToken |-> Sess1],
    [net |-> FALSE, ok |-> FALSE, status |-> 0, statusText |-> "",
     authenticationToken |-> Undefined] }

\* Responses of POST /api/auth/bridge
HydrationResponses ==
  { [net |-> TRUE, ok |-> TRUE, status |-> 200, json |-> TRUE, success |-> TRUE,
     salt |-> Salt42, address |-> AddrDead, message |-> Null, text |-> ""],
    [net |-> TRUE, ok |-> TRUE, status |-> 200, json |-> TRUE, success |-> TRUE,
     salt |-> Undefined, address |-> AddrDead, message |-> Null, text |-> ""],
    [net |-> TRUE, ok |-> TRUE, status |-> 200, json |-> TRUE, success |-> TRUE,
     salt |-> Salt42, address |-> <<>>, message |-> Null, text |-> ""],
    [net |-> TRUE, ok |-> TRUE, status |-> 200, json |-> TRUE, success |-> FALSE,
     salt |-> Salt42, address |-> AddrDead, message |-> "denied", text |-> ""],
    [net |-> TRUE, ok |-> FALSE, status |-> 500, json |-> TRUE, success |-> FALSE,
     salt |-> Undefined, address |-> Undefined, message |-> "boom", text |-> ""],
    [net |-> TRUE, ok |-> FALSE, status |-> 403, json |-> FALSE, success |-> FALSE,
     salt |-> Undefined, address |-> Undefined, message |-> Null, text |-> "Forbidden"],
    [net |-> FALSE, ok |-> FALSE, status |-> 0, json |-> FALSE, success |-> FALSE,
     salt |-> Undefined, address |-> Undefined, message |-> Null, text |-> ""] }

---------------------------------------------------------------------------
(* utils/deeplink.ts *)

RECURSIVE Concat(_)
Concat(ss) == IF ss = <<>> THEN <<>> ELSE Head(ss) \o Concat(Tail(ss))

Chars(parts) == Concat(parts)

\* The application/x-www-form-urlencoded byte serializer of
\* URLSearchParams.toString(): alphanumerics and * - . _ stay, a space becomes
\* +, every other byte of the UTF-8 encoding becomes %XX.
FormEncodeChar(c) ==
  CASE c = " " -> <<"+">>
    [] c = "é" -> <<"%", "C", "3", "%", "A", "9">>
    [] c = "&" -> <<"%", "2", "6">>
    [] c = "=" -> <<"%", "3", "D">>
    [] c = "%" -> <<"%", "2", "5">>
    [] c = "+" -> <<"%", "2", "B">>
    [] c = "/" -> <<"%", "2", "F">>
    [] c = "?" -> <<"%", "3", "F">>
    [] c = "#" -> <<"%", "2", "3">>
    [] OTHER -> <<c>>

FormEncode(s) == Concat([i \in 1..Len(s) |-> FormEncodeChar(s[i])])

DeeplinkProtocol == <<"o", "b", "s", "i", "d", "i", "a", "n">>
DeeplinkCallback == <<"e", "n", "o", "k", "i", "-", "a", "u", "t", "h">>

buildDeeplink(data) ==
  DeeplinkProtocol \o <<":", "/", "/">> \o DeeplinkCallback \o <<"?">>
    \o <<"j", "w", "t", "=">> \o FormEncode(data.jwt)
    \o <<"&", "a", "z", "u", "r", "e", "_", "t", "o", "k", "e", "n", "=">>
    \o FormEncode(data.azureToken)
    \o <<"&", "s", "a", "l", "t", "=">> \o FormEncode(data.salt)
    \o <<"&", "a", "d", "d", "r", "e", "s", "s", "=">> \o FormEncode(data.address)

Invalid == [invalid |-> TRUE]

\* Mutant: any non-empty redirect parameter counts as true.
parseObsidianParams_RedirectTruthy(searchParams) ==
  IF searchParams.source # "obsidian" THEN Invalid
  ELSE IF Falsy(searchParams.nonce) THEN Invalid
  ELSE [nonce |-> searchParams.nonce,
        redirect |-> ~Falsy(searchParams.redirect),
        prompt |-> IF Falsy(searchParams.prompt) THEN Null ELSE searchParams.prompt]

\* Mutant: a query without a nonce is taken as a launch.
parseObsidianParams_NoNonceCheck(searchParams) ==
  IF searchParams.source # "obsidian" THEN Invalid
  ELSE [nonce |-> searchParams.nonce,
        redirect |-> (searchParams.redirect = "true"),
        prompt |-> IF Falsy(searchParams.prompt) THEN Null ELSE searchParams.prompt]

\* Mutant: the nonce handed on is not the one of the query.
parseObsidianParams_WrongNonce(searchParams) ==
  IF searchParams.source # "obsidian" THEN Invalid
  ELSE IF Falsy(searchParams.nonce) THEN Invalid
  ELSE [nonce |-> searchParams.source,
        redirect |-> (searchParams.redirect = "true"),
        prompt |-> IF Falsy(searchParams.prompt) THEN Null ELSE searchParams.prompt]

parseObsidianParams(searchParams) ==
  IF searchParams.source # "obsidian" THEN Invalid
  ELSE IF Falsy(searchParams.nonce) THEN Invalid
  ELSE [nonce |-> searchParams.nonce,
        redirect |-> (searchParams.redirect = "true"),
        prompt |-> IF Falsy(searchParams.prompt) THEN Null ELSE searchParams.prompt]

\* Mutant: only the hash is taken off the URL.
clearUrlSensitiveData_KeepsQuery(u) == [search |-> u.search, hash |-> EmptyHash]

\* clearUrlSensitiveData: replaceState(origin + pathname)
clearUrlSensitiveData(u) == [search |-> EmptyQuery, hash |-> EmptyHash]

---------------------------------------------------------------------------
(* config.ts *)

\* Mutant: the hash is cleared together with the query string.
parseConfigFromHash_ClearsQuery(u) ==
  IF u.hash = EmptyHash THEN [config |-> NoConfig, url |-> u]
  ELSE IF u.hash.id_token # Undefined THEN [config |-> NoConfig, url |-> u]
  ELSE IF Falsy(u.hash.funcKey) THEN [config |-> NoConfig, url |-> u]
  ELSE [config |-> [funcKey |-> u.hash.funcKey,
                    backendUrl |-> IF Falsy(u.hash.backendUrl) THEN Null
                                   ELSE u.hash.backendUrl,
                    googleClientId |-> IF Falsy(u.hash.clientId) THEN Null
                                       ELSE u.hash.clientId],
        url |-> [search |-> EmptyQuery, hash |-> EmptyHash]]

\* parseConfigFromHash: the partial config read from the hash (NoConfig for
\* null) and the URL it leaves behind.
parseConfigFromHash(u) ==
  IF u.hash = EmptyHash THEN [config |-> NoConfig, url |-> u]
  ELSE IF u.hash.id_token # Undefined THEN [config |-> NoConfig, url |-> u]
  ELSE IF Falsy(u.hash.funcKey) THEN [config |-> NoConfig, url |-> u]
  ELSE [config |-> [funcKey |-> u.hash.funcKey,
                    backendUrl |-> IF Falsy(u.hash.backendUrl) THEN Null
                                   ELSE u.hash.backendUrl,
                    googleClientId |-> IF Falsy(u.hash.clientId) THEN Null
                                       ELSE u.hash.clientId],
        url |-> [search |-> u.search, hash |-> EmptyHash]]

\* getBridgeConfig: [config, url, parsed: parseConfigFromHash was called]; the
\* cached config is returned untouched.
getBridgeConfig(rc, u, e) ==
  IF rc # NoConfig THEN [config |-> rc, url |-> u, parsed |-> FALSE]
  ELSE LET h == parseConfigFromHash(u)
           hc == h.config
       IN [config |->
             [backendUrl |-> IF hc # NoConfig /\ ~Falsy(hc.backendUrl) THEN hc.backendUrl
                             ELSE IF ~Falsy(e.backendUrl) THEN e.backendUrl
                             ELSE "http://localhost:7071",
              googleClientId |-> IF hc # NoConfig /\ ~Falsy(hc.googleClientId)
                                 THEN hc.googleClientId
                                 ELSE IF ~Falsy(e.clientId) THEN e.clientId ELSE "",
              funcKey |-> IF hc # NoConfig /\ ~Falsy(hc.funcKey) THEN hc.funcKey ELSE Null,
              deeplinkProtocol |-> "obsidian",
              deeplinkCallback |-> "enoki-auth"],
           url |-> h.url, parsed |-> TRUE]

\* Mutant: the function key is not asked for.
validateConfig_NoFuncKeyCheck(config) ==
  IF Falsy(config.backendUrl) THEN "VITE_BACKEND_URL environment variable is required"
  ELSE IF Falsy(config.googleClientId)
    THEN "VITE_GOOGLE_CLIENT_ID environment variable is required"
  ELSE Null

\* validateConfig: the message of the Error it throws, Null when it returns.
validateConfig(config) ==
  IF Falsy(config.backendUrl) THEN "VITE_BACKEND_URL environment variable is required"
  ELSE IF Falsy(config.googleClientId)
    THEN "VITE_GOOGLE_CLIENT_ID environment variable is required"
  ELSE IF Falsy(config.funcKey)
    THEN "Function key is required. The plugin must pass it via URL hash: #funcKey=xxx"
  ELSE Null

---------------------------------------------------------------------------
(* services/GoogleAuthService.ts *)

\* Mutant: a load that is pending is not looked for.
loadScript_NoPendingGuard(w) ==
  IF w.gas.scriptLoaded THEN [w EXCEPT !.awaits = "resolved"]
  ELSE IF w.gis.present
    THEN [w EXCEPT !.gas.scriptLoaded = TRUE, !.gas.loadPromise = "resolved",
                   !.awaits = "shared"]
    ELSE [w EXCEPT !.gas.loadPromise = "pending", !.dom.scripts = @ + 1,
                   !.hist.net = @ \cup {[call |-> "script", url |-> w.url]},
                   !.awaits = "shared"]

\* Mutant: a load that has failed is started anew.
loadScript_RetriesAfterFailure(w) ==
  IF w.gas.scriptLoaded THEN [w EXCEPT !.awaits = "resolved"]
  ELSE IF w.gas.loadPromise \notin {"none", "rejected"} THEN [w EXCEPT !.awaits = "shared"]
  ELSE IF w.gis.present
    THEN [w EXCEPT !.gas.scriptLoaded = TRUE, !.gas.loadPromise = "resolved",
                   !.awaits = "shared"]
    ELSE [w EXCEPT !.gas.loadPromise = "pending", !.dom.scripts = @ + 1,
                   !.hist.net = @ \cup {[call |-> "script", url |-> w.url]},
                   !.awaits = "shared"]

\* loadScript up to its return: the adapter, the DOM and the provider object
\* after the call, and the promise the caller awaits ("resolved", or "shared":
\* the adapter's loadPromise).
loadScript(w) ==
  IF w.gas.scriptLoaded THEN [w EXCEPT !.awaits = "resolved"]
  ELSE IF w.gas.loadPromise # "none" THEN [w EXCEPT !.awaits = "shared"]
  ELSE IF w.gis.present
    THEN [w EXCEPT !.gas.scriptLoaded = TRUE, !.gas.loadPromise = "resolved",
                   !.awaits = "shared"]
    ELSE [w EXCEPT !.gas.loadPromise = "pending", !.dom.scripts = @ + 1,
                   !.hist.net = @ \cup {[call |-> "script", url |-> w.url]},
                   !.awaits = "shared"]

\* Mutant: the nonce is not looked at.
initializeThrows_NoNonceCheck(w, nonce) ==
  IF ~w.gis.present THEN "Google Identity Services not loaded" ELSE Null

\* initialize(nonce, callback): the message of the Error it throws, Null when
\* it returns.
initializeThrows(w, nonce) ==
  IF ~w.gis.present THEN "Google Identity Services not loaded"
  ELSE IF Falsy(nonce) THEN "Nonce is required for zkLogin authentication"
  ELSE Null

\* The nonce initialize hands to window.google.accounts.id.initialize.
initializeNonce(nonce) == nonce

\* The configuration initialize hands to window.google.accounts.id.initialize
\* (the callback apart).
initializeConfig(config, nonce) ==
  [client_id |-> config.googleClientId, nonce |-> initializeNonce(nonce),
   auto_select |-> FALSE, cancel_on_tap_outside |-> TRUE, context |-> "signin",
   ux_mode |-> "popup", itp_support |-> TRUE, use_fedcm_for_prompt |-> TRUE]

\* The options App hands to renderButton.
buttonOptions ==
  [type |-> "standard", theme |-> "outline", size |-> "large", text |-> "signin_with",
   shape |-> "rectangular", width |-> "300", locale |-> "en"]

initialize(w, nonce) ==
  IF initializeThrows(w, nonce) # Null
    THEN [w EXCEPT !.hist.initLog = Append(@, [layer |-> "service", nonce |-> nonce])]
    ELSE [w EXCEPT !.gis.nonce = initializeNonce(nonce),
                   !.gas.initialized = TRUE,
                   !.hist.initLog = @ \o <<[layer |-> "service", nonce |-> nonce],
                                          [layer |-> "provider",
                                           nonce |-> initializeNonce(nonce)]>>]

\* reset()
reset(w) == [w EXCEPT !.gas.initialized = FALSE]

\* Mutant: cancel forgets the initialization.
cancel_Resets(w) ==
  IF w.gis.present THEN [w EXCEPT !.gis.cancels = @ + 1, !.gas.initialized = FALSE]
  ELSE w

\* cancel(): forwards to the provider when it is there.
cancel(w) ==
  IF w.gis.present THEN [w EXCEPT !.gis.cancels = @ + 1] ELSE w

---------------------------------------------------------------------------
(* services/BridgeService.ts *)

\* Mutant: an answer without the token counts as a success.
exchangeGoogleTokenForAzureSession_TakesEmpty(resp) ==
  IF ~resp.net THEN [throws |-> "Failed to fetch", token |-> Undefined]
  ELSE IF ~resp.ok
    THEN [throws |-> "Azure Easy Auth login failed: HTTP " \o ToString(resp.status)
                       \o " - " \o resp.statusText,
          token |-> Undefined]
  ELSE [throws |-> Null, token |-> resp.authenticationToken]

\* exchangeGoogleTokenForAzureSession on its response: the message of the
\* Error it throws (Null when it returns) and the token it returns.
\* Mutant: the HTTP status of the exchange is not looked at.
exchangeGoogleTokenForAzureSession_IgnoresStatus(resp) ==
  IF ~resp.net THEN [throws |-> "Failed to fetch", token |-> Undefined]
  ELSE IF FalsySeq(resp.authenticationToken)
    THEN [throws |-> "No authenticationToken in Azure Easy Auth response",
          token |-> Undefined]
  ELSE [throws |-> Null, token |-> resp.authenticationToken]

exchangeGoogleTokenForAzureSession(resp) ==
  IF ~resp.net THEN [throws |-> "Failed to fetch", token |-> Undefined]
  ELSE IF ~resp.ok
    THEN [throws |-> "Azure Easy Auth login failed: HTTP " \o ToString(resp.status)
                       \o " - " \o resp.statusText,
          token |-> Undefined]
  ELSE IF FalsySeq(resp.authenticationToken)
    THEN [throws |-> "No authenticationToken in Azure Easy Auth response",
          token |-> Undefined]
  ELSE [throws |-> Null, token |-> resp.authenticationToken]

\* Mutant: the success flag of the answer is not looked at.
hydrateUserData_IgnoresSuccessFlag(resp) ==
  LET none == [salt |-> Undefined, address |-> Undefined]
      http == "HTTP " \o ToString(resp.status)
  IN IF ~resp.net THEN [throws |-> "Failed to fetch"] @@ none
     ELSE IF ~resp.ok
       THEN IF resp.json
              THEN [throws |-> IF Falsy(resp.message) THEN http ELSE resp.message] @@ none
              ELSE [throws |-> http \o ": " \o resp.text] @@ none
     ELSE IF FalsySeq(resp.address) \/ FalsySeq(resp.salt)
       THEN [throws |-> IF Falsy(resp.message) THEN "Invalid response from bridge service"
                        ELSE resp.message] @@ none
     ELSE [throws |-> Null, salt |-> resp.salt, address |-> resp.address]

\* Mutant: a successful answer is taken without looking for salt and address.
hydrateUserData_TakesPartial(resp) ==
  LET none == [salt |-> Undefined, address |-> Undefined]
      http == "HTTP " \o ToString(resp.status)
  IN IF ~resp.net THEN [throws |-> "Failed to fetch"] @@ none
     ELSE IF ~resp.ok
       THEN IF resp.json
              THEN [throws |-> IF Falsy(resp.message) THEN http ELSE resp.message] @@ none
              ELSE [throws |-> http \o ": " \o resp.text] @@ none
     ELSE IF ~resp.success
       THEN [throws |-> IF Falsy(resp.message) THEN "Invalid response from bridge service"
                        ELSE resp.message] @@ none
     ELSE [throws |-> Null, salt |-> resp.salt, address |-> resp.address]

\* hydrateUserData on its response: the message of the Error it throws (Null
\* when it returns) and the salt and address it returns.
hydrateUserData(resp) ==
  LET none == [salt |-> Undefined, address |-> Undefined]
      http == "HTTP " \o ToString(resp.status)
  IN IF ~resp.net THEN [throws |-> "Failed to fetch"] @@ none
     ELSE IF ~resp.ok
       THEN IF resp.json
              THEN [throws |-> IF Falsy(resp.message) THEN http ELSE resp.message] @@ none
              ELSE [throws |-> http \o ": " \o resp.text] @@ none
     ELSE IF ~resp.success \/ FalsySeq(resp.address) \/ FalsySeq(resp.salt)
       THEN [throws |-> IF Falsy(resp.message) THEN "Invalid response from bridge service"
                        ELSE resp.message] @@ none
     ELSE [throws |-> Null, salt |-> resp.salt, address |-> resp.address]

\* Mutant: the hydration request carries the session token as identity token.
hydrateRequest_SendsSession(googleIdToken, azureSessionToken) ==
  [provider |-> "google", idToken |-> azureSessionToken,
   zumoAuth |-> azureSessionToken]

\* What exchangeGoogleTokenForAzureSession posts: the JSON body.
exchangeRequest(googleIdToken) == [id_token |-> googleIdToken]

\* What hydrateUserData posts: the JSON body and the X-ZUMO-AUTH header.
hydrateRequest(googleIdToken, azureSessionToken) ==
  [provider |-> "google", idToken |-> googleIdToken, zumoAuth |-> azureSessionToken]

\* Mutant: salt and address change places.
completeAuthentication_Swapped(googleIdToken, azureToken, hydrated) ==
  [jwt |-> googleIdToken, azureToken |-> azureToken,
   salt |-> hydrated.address, address |-> hydrated.salt]

\* The AuthenticationResult completeAuthentication returns.
completeAuthentication(googleIdToken, azureToken, hydrated) ==
  [jwt |-> googleIdToken, azureToken |-> azureToken,
   salt |-> hydrated.salt, address |-> hydrated.address]

---------------------------------------------------------------------------
(* App (app/src/types.ts) *)

World ==
  [url |-> url, env |-> env, runtimeConfig |-> runtimeConfig, storage |-> storage,
   nonceRef |-> nonceRef, state |-> state, gas |-> gas, dom |-> dom, gis |-> gis,
   svc |-> svc, inits |-> inits, runs |-> runs, nav |-> nav, hist |-> hist,
   awaits |-> "none"]

Becomes(w) ==
  /\ url' = w.url
  /\ env' = w.env
  /\ runtimeConfig' = w.runtimeConfig
  /\ storage' = w.storage
  /\ nonceRef' = w.nonceRef
  /\ state' = w.state
  /\ gas' = w.gas
  /\ dom' = w.dom
  /\ gis' = w.gis
  /\ svc' = w.svc
  /\ inits' = w.inits
  /\ runs' = w.runs
  /\ nav' = w.nav
  /\ hist' = w.hist

BridgeState(status, message, error, data) ==
  [status |-> status, message |-> message, error |-> error, data |-> data]

\* setState with the re-render it causes: the button container exists only
\* while status is ready.
setState(w, s) ==
  [w EXCEPT !.state = s,
            !.dom.button = IF s.status = "ready" THEN @ ELSE FALSE]

\* A run of handleGoogleCredential: the credential it was called with, where it
\* stands, completeAuthentication's azureToken, the URL it navigated to, and
\* (observation only) the RPCs it has issued and what the responses it went on
\* with carried; requests are what its RPCs posted. A run that has ended keeps
\* only where it ended and its calls.
NewRun(credential, pc) ==
  [cred |-> credential, pc |-> pc, azureToken |-> Undefined, deeplink |-> Undefined,
   calls |-> IF pc = "exchange" THEN <<"exchange">> ELSE <<>>,
   requests |-> IF pc = "exchange" THEN <<exchangeRequest(credential)>> ELSE <<>>,
   exchOk |-> FALSE, exchToken |-> Undefined,
   hydSalt |-> Undefined, hydAddress |-> Undefined]

\* Mutant: a callback without a credential starts the exchange all the same.
handleGoogleCredential_NoCheck(w, credential) ==
  [setState(w, BridgeState("exchanging", "Exchanging credentials with Azure...",
                           Null, NoData))
     EXCEPT !.runs = Append(@, NewRun(credential, "exchange"))]

\* handleGoogleCredential up to its first await.
handleGoogleCredential(w, credential) ==
  IF FalsySeq(credential)
    THEN [setState(w, BridgeState("error", "Authentication failed",
                                  "No credential received from Google", NoData))
            EXCEPT !.runs = Append(@, NewRun(credential, "noCredential"))]
    ELSE [setState(w, BridgeState("exchanging", "Exchanging credentials with Azure...",
                                  Null, NoData))
            EXCEPT !.runs = Append(@, NewRun(credential, "exchange")),
                   !.hist.net = @ \cup {[call |-> "exchange", url |-> w.url]}]

\* The catch block of handleGoogleCredential.
Ended(run, pc) ==
  [NewRun(Undefined, pc) EXCEPT !.calls = run.calls, !.exchOk = run.exchOk]

authenticationFailed(w, message) ==
  setState(w, BridgeState("error", "Authentication failed", message, NoData))

\* Run r resumes with the response of the session exchange.
afterExchange(w, r, resp) ==
  LET x == exchangeGoogleTokenForAzureSession(resp)
  IN IF x.throws # Null
       THEN [authenticationFailed(w, x.throws)
               EXCEPT !.runs[r] = Ended(@, "failedExchange")]
       ELSE [w EXCEPT !.svc.sessionToken = x.token,
                      !.runs[r].pc = "hydrate",
                      !.runs[r].calls = Append(@, "hydrate"),
                      !.runs[r].requests =
                        Append(@, hydrateRequest(w.runs[r].cred, x.token)),
                      !.hist.net = @ \cup {[call |-> "hydrate", url |-> w.url]},
                      !.runs[r].exchOk = (resp.net /\ resp.ok),
                      !.runs[r].exchToken = resp.authenticationToken,
                      !.runs[r].azureToken = x.token]

\* ejectToObsidian: the world after the navigation.
ejectToObsidian(w, data) ==
  [w EXCEPT !.nav = [url |-> buildDeeplink(data), kind |-> "deeplink",
                     count |-> @.count + 1]]

\* Mutant: the result takes the session token from the service's field.
afterHydration_SharedToken(w, r, resp) ==
  LET h == hydrateUserData(resp)
      authResult == completeAuthentication(w.runs[r].cred, w.svc.sessionToken, h)
  IN IF h.throws # Null
       THEN [authenticationFailed(w, h.throws)
               EXCEPT !.runs[r] = Ended(@, "failedHydrate")]
       ELSE [ejectToObsidian(
               setState(w, BridgeState("ejecting",
                                       "Authentication successful. Opening Obsidian...",
                                       Null, authResult)),
               authResult)
               EXCEPT !.runs[r].pc = "timer",
                      !.runs[r].hydSalt = resp.salt,
                      !.runs[r].hydAddress = resp.address,
                      !.runs[r].deeplink = buildDeeplink(authResult)]

\* Run r resumes with the response of the hydration.
afterHydration(w, r, resp) ==
  LET h == hydrateUserData(resp)
      authResult == completeAuthentication(w.runs[r].cred, w.runs[r].azureToken, h)
  IN IF h.throws # Null
       THEN [authenticationFailed(w, h.throws)
               EXCEPT !.runs[r] = Ended(@, "failedHydrate")]
       ELSE [ejectToObsidian(
               setState(w, BridgeState("ejecting",
                                       "Authentication successful. Opening Obsidian...",
                                       Null, authResult)),
               authResult)
               EXCEPT !.runs[r].pc = "timer",
                      !.runs[r].hydSalt = resp.salt,
                      !.runs[r].hydAddress = resp.address,
                      !.runs[r].deeplink = buildDeeplink(authResult)]

\* Mutant: the timer callback sets a fresh state.
successTimer_FreshState(w, r) ==
  [setState(w, BridgeState("success",
                           "If Obsidian did not open, click the button below.",
                           Null, NoData))
     EXCEPT !.runs[r] = Ended(@, "done")]

\* The setTimeout callback of run r.
successTimer(w, r) ==
  [setState(w, [w.state EXCEPT
                  !.status = "success",
                  !.message = "If Obsidian did not open, click the button below."])
     EXCEPT !.runs[r] = Ended(@, "done")]

\* initializeGoogleSignIn up to await loadScript().
initializeGoogleSignIn(w, nonce) ==
  LET w1 == setState(w, BridgeState("initializing", "Loading Google Sign-In...",
                                    Null, NoData))
      w2 == [w1 EXCEPT !.nonceRef = nonce, !.storage.bridge_nonce = nonce]
      w3 == loadScript(w2)
  IN [w3 EXCEPT !.inits = Append(@, [nonce |-> nonce, awaits |-> w3.awaits,
                                     pc |-> "await", outcome |-> "none"]),
                !.awaits = "none"]

\* Mutant: ready is set although initialize has thrown.
afterLoadScript_ReadyAnyway(w, i, outcome) ==
  LET nonce == w.inits[i].nonce
      done == [w EXCEPT !.inits[i].pc = "done", !.inits[i].outcome = outcome]
  IN IF outcome = "rejected"
       THEN setState(done, BridgeState("error", "Failed to initialize authentication",
                                       "Failed to load Google Identity Services script",
                                       NoData))
       ELSE setState(initialize(done, nonce),
                     BridgeState("ready", "Click the button below to sign in with Google",
                                 Null, NoData))

\* initializeGoogleSignIn after await loadScript(): outcome is how the awaited
\* promise settled.
afterLoadScript(w, i, outcome) ==
  LET nonce == w.inits[i].nonce
      done == [w EXCEPT !.inits[i].pc = "done", !.inits[i].outcome = outcome]
      failed(v, message) ==
        setState(v, BridgeState("error", "Failed to initialize authentication",
                                message, NoData))
  IN IF outcome = "rejected"
       THEN failed(done, "Failed to load Google Identity Services script")
     ELSE IF initializeThrows(done, nonce) # Null
       THEN failed(initialize(done, nonce), initializeThrows(done, nonce))
     ELSE setState(initialize(done, nonce),
                   BridgeState("ready", "Click the button below to sign in with Google",
                               Null, NoData))

IdleMessage ==
  "This page bridges authentication for Obsidian. Please initiate login from the Obsidian plugin."

\* The init function of the main effect, up to its first await.
init(w) ==
  LET c == getBridgeConfig(w.runtimeConfig, w.url, w.env)
      w1 == [w EXCEPT !.runtimeConfig = c.config, !.url = c.url,
                      !.hist.hashParses = IF c.parsed THEN @ + 1 ELSE @]
      obsidianParams == parseObsidianParams(w1.url.search)
  IN IF validateConfig(c.config) # Null
       THEN setState(w1, BridgeState("error", "Initialization failed",
                                     validateConfig(c.config), NoData))
     ELSE IF obsidianParams # Invalid
       THEN initializeGoogleSignIn(
              [w1 EXCEPT !.storage.bridge_source = "obsidian",
                         !.hist.marker.writes = @ + 1,
                         !.url = clearUrlSensitiveData(w1.url)],
              obsidianParams.nonce)
     ELSE setState(w1, BridgeState("idle", IdleMessage, Null, NoData))

\* renderManualLink: the href of the fallback link, Undefined when none is rendered.
renderManualLink(s) ==
  IF s.data = NoData THEN Undefined
  ELSE IF FalsySeq(s.data.jwt) \/ FalsySeq(s.data.azureToken)
          \/ FalsySeq(s.data.salt) \/ FalsySeq(s.data.address) THEN Undefined
  ELSE buildDeeplink(s.data)

\* The fallback link the success branch of the render shows.
FallbackLink(s) ==
  IF s.status = "success" /\ s.data # NoData THEN renderManualLink(s) ELSE Undefined

---------------------------------------------------------------------------
(* Actions *)

Init ==
  /\ phase = "load"
  /\ url \in [search : LaunchQueries, hash : Hashes]
  /\ env \in [clientId : {"", "cid"}, backendUrl : {Null}]
  /\ runtimeConfig = NoConfig
  /\ storage = [bridge_source |-> Null, bridge_nonce |-> Null]
  /\ nonceRef = Null
  /\ state = BridgeState("idle", "Initializing Bridge...", Null, NoData)
  /\ gas = [initialized |-> FALSE, scriptLoaded |-> FALSE, loadPromise |-> "none"]
  /\ dom = [scripts |-> 0, button |-> FALSE]
  /\ gis \in [present : BOOLEAN, nonce : {Null}, popups : {0}, cancels : {0}]
  /\ svc = [sessionToken |-> Undefined]
  /\ inits = <<>>
  /\ runs = <<>>
  /\ nav = [url |-> Undefined, kind |-> "none", count |-> 0]
  /\ hist = [launch |-> [source |-> url.search.source, nonce |-> url.search.nonce],
             initLog |-> <<>>, clicks |-> 0, app |-> "callback", net |-> {},
             creds |-> 0, hashParses |-> 0,
             marker |-> [writes |-> 0, reads |-> 0]]

\* config.ts is evaluated: export const CONFIG = getBridgeConfig().
ModuleLoad ==
  /\ phase = "load"
  /\ phase' = "boot"
  /\ LET c == getBridgeConfig(runtimeConfig, url, env)
     IN Becomes([World EXCEPT !.runtimeConfig = c.config, !.url = c.url,
                              !.hist.hashParses = IF c.parsed THEN @ + 1 ELSE @])

\* The main effect runs; under React.StrictMode it is cleaned up and run again
\* in the same task.
Mount ==
  /\ phase = "boot"
  /\ phase' = "live"
  /\ \E strict \in BOOLEAN :
       Becomes(IF strict THEN init(cancel(init(World))) ELSE init(World))

\* The script element's onload: the script was fetched and run; whether it
\* defined window.google.accounts.id is the script's doing.
ScriptOnload ==
  /\ phase = "live"
  /\ gas.loadPromise = "pending"
  /\ \E defined \in BOOLEAN :
       Becomes([World EXCEPT !.gas.scriptLoaded = TRUE, !.gas.loadPromise = "resolved",
                             !.gis.present = defined])
  /\ UNCHANGED phase

\* The script element's onerror.
ScriptOnerror ==
  /\ phase = "live"
  /\ gas.loadPromise = "pending"
  /\ Becomes([World EXCEPT !.gas.loadPromise = "rejected"])
  /\ UNCHANGED phase

\* An init run resumes after await loadScript().
InitResume(i) ==
  /\ phase = "live"
  /\ inits[i].pc = "await"
  /\ LET outcome == IF inits[i].awaits = "resolved" THEN "resolved" ELSE gas.loadPromise
     IN /\ outcome \in {"resolved", "rejected"}
        /\ Becomes(afterLoadScript(World, i, outcome))
  /\ UNCHANGED phase

\* The effect on state.status: renders the Google button into the container.
RenderButton ==
  /\ phase = "live"
  /\ state.status = "ready"
  /\ ~dom.button
  /\ gas.initialized /\ gis.present
  /\ Becomes([World EXCEPT !.dom.button = TRUE])
  /\ UNCHANGED phase

\* The user activates the rendered button: the provider opens its sign-in.
UserClick ==
  /\ phase = "live"
  /\ dom.button
  /\ hist.clicks < MaxClicks
  /\ Becomes([World EXCEPT !.gis.popups = @ + 1, !.hist.clicks = @ + 1])
  /\ UNCHANGED phase

\* The provider ends a sign-in: the world as it calls the registered callback.
Delivers(w, credential) ==
  [w EXCEPT !.gis.popups = @ - 1,
            !.hist.creds = IF FalsySeq(credential) THEN @ ELSE @ + 1]

\* The provider ends a sign-in and calls the registered callback.
GoogleCallback(credential) ==
  /\ phase = "live"
  /\ gis.popups > 0
  /\ Becomes(handleGoogleCredential(Delivers(World, credential), credential))
  /\ UNCHANGED phase

ExchangeReturn(r, resp) ==
  /\ phase = "live"
  /\ runs[r].pc = "exchange"
  /\ Becomes(afterExchange(World, r, resp))
  /\ UNCHANGED phase

HydrateReturn(r, resp) ==
  /\ phase = "live"
  /\ runs[r].pc = "hydrate"
  /\ Becomes(afterHydration(World, r, resp))
  /\ UNCHANGED phase

TimerFire(r) ==
  /\ phase = "live"
  /\ r \in DOMAIN runs
  /\ runs[r].pc = "timer"
  /\ Becomes(successTimer(World, r))
  /\ UNCHANGED phase

Next ==
  \/ ModuleLoad
  \/ Mount
  \/ ScriptOnload
  \/ ScriptOnerror
  \/ \E i \in DOMAIN inits : InitResume(i)
  \/ RenderButton
  \/ UserClick
  \/ \E credential \in Credentials : GoogleCallback(credential)
  \/ \E r \in DOMAIN runs, resp \in ExchangeResponses : ExchangeReturn(r, resp)
  \/ \E r \in DOMAIN runs, resp \in HydrationResponses : HydrateReturn(r, resp)
  \/ \E r \in DOMAIN runs : TimerFire(r)

Spec == Init /\ [][Next]_vars

\* setTimeout callbacks are run: while a delay timer is pending, one fires.
FairSpec == Spec /\ WF_vars(\E r \in DOMAIN runs : TimerFire(r))

---------------------------------------------------------------------------
(* The redirect-based App (app/src/App.tsx) *)

\* encodeURIComponent: alphanumerics and - _ . ! ~ * ' ( ) stay, every other
\* byte becomes %XX.
encodeURIComponentChar(c) ==
  CASE c = " " -> <<"%", "2", "0">>
    [] c = "&" -> <<"%", "2", "6">>
    [] c = "=" -> <<"%", "3", "D">>
    [] c = "%" -> <<"%", "2", "5">>
    [] c = "+" -> <<"%", "2", "B">>
    [] c = "/" -> <<"%", "2", "F">>
    [] c = "?" -> <<"%", "3", "F">>
    [] c = "#" -> <<"%", "2", "3">>
    [] c = ":" -> <<"%", "3", "A">>
    [] OTHER -> <<c>>

encodeURIComponent(s) == Concat([i \in 1..Len(s) |-> encodeURIComponentChar(s[i])])

\* The deep link handleCallback navigates to and the success branch renders.
redirectDeepLink(idToken, salt, address) ==
  <<"o", "b", "s", "i", "d", "i", "a", "n", ":", "/", "/",
    "e", "n", "o", "k", "i", "-", "a", "u", "t", "h", "?">>
    \o <<"j", "w", "t", "=">> \o encodeURIComponent(idToken)
    \o <<"&", "s", "a", "l", "t", "=">> \o encodeURIComponent(salt)
    \o <<"&", "a", "d", "d", "r", "e", "s", "s", "=">> \o encodeURIComponent(address)

\* The authorization URL handleIngest builds; nonce and prompt go in as they are.
authUrl(config, params) ==
  <<"https://accounts.google.com/o/oauth2/v2/auth", "?",
    "client_id", "=", config.googleClientId, "&",
    "redirect_uri", "=", "<origin>%2Fauth%2Fcallback", "&",
    "response_type", "=", "id_token", "&",
    "scope", "=", "openid%20email%20profile", "&",
    "nonce", "=", IF Falsy(params.nonce) THEN "" ELSE params.nonce, "&",
    "prompt", "=", IF Falsy(params.prompt) THEN "select_account" ELSE params.prompt>>

navigate(w, to, kind) ==
  [w EXCEPT !.nav = [url |-> to, kind |-> kind, count |-> @.count + 1]]

handleIngest(w, params) ==
  LET w1 == [setState(w, BridgeState("ingest",
                                     "Preparing to authenticate with Obsidian...",
                                     Null, NoData))
               EXCEPT !.storage.bridge_source = "obsidian",
                      !.hist.marker.writes = @ + 1]
      to == authUrl(w.runtimeConfig, params)
  IN IF params.redirect = "true"
       THEN navigate(setState(w1, BridgeState("authenticating",
                                              "Redirecting to provider...", Null, NoData)),
                     to, "auth")
       ELSE setState(w1, BridgeState("ingest", "Ready to connect", Null,
                                     [jwt |-> to, salt |-> <<>>, address |-> <<>>]))

\* What await bridgeService.authenticateAndHydrate(idToken) can come back with
\* at its call site: an Error thrown (its message), or an address and a salt.
AuthenticateAndHydrateOutcomes ==
  { [throws |-> "Bridge login failed", salt |-> Undefined, address |-> Undefined],
    [throws |-> Null, salt |-> Salt42, address |-> AddrDead],
    [throws |-> Null, salt |-> Sess2, address |-> AddrDead] }

\* handleCallback up to await authenticateAndHydrate; a throw before it is
\* caught by init.
handleCallback(w, hash) ==
  LET w0 == [w EXCEPT !.hist.marker.reads = @ + 1]
      w1 == setState(w0, BridgeState("hydrating", "Verifying authentication...",
                                     Null, NoData))
      idToken == hash.id_token
  IN IF FalsySeq(idToken)
       THEN setState(w1, BridgeState("error", "Initialization failed",
                                     "No ID Token found in URL", NoData))
       ELSE [w1 EXCEPT !.url = [search |-> EmptyQuery, hash |-> EmptyHash],
                       !.runs = Append(@, NewRun(idToken, "hydrate"))]

\* The init function of the effect.
redirectInit(w) ==
  IF w.url.hash.id_token # Undefined THEN handleCallback(w, w.url.hash)
  ELSE IF w.url.search.source = "obsidian" THEN handleIngest(w, w.url.search)
  ELSE setState(w, BridgeState("idle", "Enoki Bridge: Waiting for Obsidian connection...",
                               Null, NoData))

\* handleCallback resumes with the backend's answer.
afterAuthenticateAndHydrate(w, r, h) ==
  LET idToken == w.runs[r].cred
  IN IF h.throws # Null
       THEN [setState(w, BridgeState("error", "Authentication verification failed",
                                     h.throws, NoData))
               EXCEPT !.runs[r] = Ended(@, "failedHydrate")]
       ELSE [navigate(
               setState(w, BridgeState("ejecting",
                                       "Authentication successful. Opening Obsidian...",
                                       Null,
                                       [jwt |-> idToken, salt |-> h.salt,
                                        address |-> h.address])),
               redirectDeepLink(idToken, h.salt, h.address), "deeplink")
               EXCEPT !.runs[r].pc = "timer"]

\* The href of the link the success branch of the render shows.
redirectFallbackLink(s) ==
  IF s.status = "success" /\ s.data # NoData
    THEN redirectDeepLink(s.data.jwt, s.data.salt, s.data.address)
    ELSE Undefined

RedirectInit ==
  /\ phase = "load"
  /\ url \in [search : LaunchQueries, hash : Hashes]
  /\ env \in [clientId : {"cid"}, backendUrl : {Null}]
  /\ runtimeConfig = NoConfig
  /\ storage \in [bridge_source : {Null, "obsidian"}, bridge_nonce : {Null}]
  /\ nonceRef = Null
  /\ state = BridgeState("idle", "Initializing Bridge...", Null, NoData)
  /\ gas = [initialized |-> FALSE, scriptLoaded |-> FALSE, loadPromise |-> "none"]
  /\ dom = [scripts |-> 0, button |-> FALSE]
  /\ gis = [present |-> FALSE, nonce |-> Null, popups |-> 0, cancels |-> 0]
  /\ svc = [sessionToken |-> Undefined]
  /\ inits = <<>>
  /\ runs = <<>>
  /\ nav = [url |-> Undefined, kind |-> "none", count |-> 0]
  /\ hist = [launch |-> [source |-> url.search.source, nonce |-> url.search.nonce],
             initLog |-> <<>>, clicks |-> 0, app |-> "redirect", net |-> {},
             creds |-> 0, hashParses |-> 0,
             marker |-> [writes |-> 0, reads |-> 0]]

\* The effect runs init.
RedirectMount ==
  /\ phase = "boot"
  /\ phase' = "live"
  /\ Becomes(redirectInit(World))

\* The user clicks the login button of the ingest state: the browser leaves for
\* the authorization URL kept in data.jwt.
LoginClick ==
  /\ phase = "live"
  /\ state.status = "ingest"
  /\ state.data # NoData
  /\ state.data.jwt # <<>>
  /\ phase' = "away"
  /\ Becomes(navigate(World, state.data.jwt, "auth"))

\* The browser has left for the authorization URL (redirect=true).
Leave ==
  /\ phase = "live"
  /\ state.status = "authenticating"
  /\ phase' = "away"
  /\ UNCHANGED <<url, env, runtimeConfig, storage, nonceRef, state, gas, dom, gis,
                 svc, inits, runs, nav, hist>>

\* Google sends the browser back: the page is loaded anew with the id_token in
\* the hash; sessionStorage is the tab's and stays.
ProviderRedirect(idToken) ==
  /\ phase = "away"
  /\ hist.clicks < MaxClicks
  /\ phase' = "load"
  /\ Becomes([World EXCEPT
                !.url = [search |-> EmptyQuery,
                         hash |-> [EmptyHash EXCEPT !.id_token = idToken]],
                !.runtimeConfig = NoConfig,
                !.state = BridgeState("idle", "Initializing Bridge...", Null, NoData),
                !.runs = <<>>,
                !.hist.hashParses = 0,
                !.hist.clicks = @ + 1])

AuthenticateAndHydrateReturn(r, h) ==
  /\ phase = "live"
  /\ runs[r].pc = "hydrate"
  /\ Becomes(afterAuthenticateAndHydrate(World, r, h))
  /\ UNCHANGED phase

RedirectNext ==
  \/ ModuleLoad
  \/ RedirectMount
  \/ LoginClick
  \/ Leave
  \/ \E idToken \in {Undefined, <<>>, Tok1, Tok2} : ProviderRedirect(idToken)
  \/ \E r \in DOMAIN runs, h \in AuthenticateAndHydrateOutcomes :
       AuthenticateAndHydrateReturn(r, h)
  \/ \E r \in DOMAIN runs : TimerFire(r)

SpecRedirect == RedirectInit /\ [][RedirectNext]_vars

---------------------------------------------------------------------------
(* Teardown of the callback-based App *)

\* What is left of a world the unmounted App has acted on: React drops a
\* setState on a component that is no longer mounted, and its DOM is gone.
Unmounted(w) == [w EXCEPT !.state = state, !.dom.button = FALSE]

\* The App is unmounted: the cleanup of the init effect runs.
Unmount ==
  /\ phase = "live"
  /\ phase' = "gone"
  /\ Becomes(Unmounted(cancel(World)))

\* After the teardown the script element, the promises, the provider's
\* registered callback and the timers are all still there.
LateScriptOnload ==
  /\ phase = "gone"
  /\ gas.loadPromise = "pending"
  /\ \E defined \in BOOLEAN :
       Becomes([World EXCEPT !.gas.scriptLoaded = TRUE, !.gas.loadPromise = "resolved",
                             !.gis.present = defined])
  /\ UNCHANGED phase

LateScriptOnerror ==
  /\ phase = "gone"
  /\ gas.loadPromise = "pending"
  /\ Becomes([World EXCEPT !.gas.loadPromise = "rejected"])
  /\ UNCHANGED phase

LateInitResume(i) ==
  /\ phase = "gone"
  /\ inits[i].pc = "await"
  /\ LET outcome == IF inits[i].awaits = "resolved" THEN "resolved" ELSE gas.loadPromise
     IN /\ outcome \in {"resolved", "rejected"}
        /\ Becomes(Unmounted(afterLoadScript(World, i, outcome)))
  /\ UNCHANGED phase

\* cancel() closes the One Tap prompt; a sign-in opened from the button may
\* still end and call the callback.
LateGoogleCallback(credential) ==
  /\ phase = "gone"
  /\ gis.popups > 0
  /\ Becomes(Unmounted(handleGoogleCredential(Delivers(World, credential),
                                              credential)))
  /\ UNCHANGED phase

LateExchangeReturn(r, resp) ==
  /\ phase = "gone"
  /\ runs[r].pc = "exchange"
  /\ Becomes(Unmounted(afterExchange(World, r, resp)))
  /\ UNCHANGED phase

LateHydrateReturn(r, resp) ==
  /\ phase = "gone"
  /\ runs[r].pc = "hydrate"
  /\ Becomes(Unmounted(afterHydration(World, r, resp)))
  /\ UNCHANGED phase

LateTimerFire(r) ==
  /\ phase = "gone"
  /\ runs[r].pc = "timer"
  /\ Becomes(Unmounted(successTimer(World, r)))
  /\ UNCHANGED phase

TeardownNext ==
  \/ Next
  \/ Unmount
  \/ LateScriptOnload
  \/ LateScriptOnerror
  \/ \E i \in DOMAIN inits : LateInitResume(i)
  \/ \E credential \in Credentials : LateGoogleCallback(credential)
  \/ \E r \in DOMAIN runs, resp \in ExchangeResponses : LateExchangeReturn(r, resp)
  \/ \E r \in DOMAIN runs, resp \in HydrationResponses : LateHydrateReturn(r, resp)
  \/ \E r \in DOMAIN runs : LateTimerFire(r)

SpecTeardown == Init /\ [][TeardownNext]_vars

---------------------------------------------------------------------------
(* googleAuthService on its own: any caller, any order of calls *)

Nonces == {Null, "", "abc123", "n2"}

MaxCancelCalls == 1

AdapterInit ==
  /\ phase = "live"
  /\ url = [search |-> EmptyQuery, hash |-> EmptyHash]
  /\ env = [clientId |-> "cid", backendUrl |-> Null]
  /\ runtimeConfig = NoConfig
  /\ storage = [bridge_source |-> Null, bridge_nonce |-> Null]
  /\ nonceRef = Null
  /\ state = BridgeState("idle", "Initializing Bridge...", Null, NoData)
  /\ gas = [initialized |-> FALSE, scriptLoaded |-> FALSE, loadPromise |-> "none"]
  /\ dom = [scripts |-> 0, button |-> FALSE]
  /\ gis \in [present : BOOLEAN, nonce : {Null}, popups : {0}, cancels : {0}]
  /\ svc = [sessionToken |-> Undefined]
  /\ inits = <<>>
  /\ runs = <<>>
  /\ nav = [url |-> Undefined, kind |-> "none", count |-> 0]
  /\ hist = [launch |-> [source |-> Null, nonce |-> Null],
             initLog |-> <<>>, clicks |-> 0, app |-> "adapter", net |-> {},
             creds |-> 0, hashParses |-> 0,
             marker |-> [writes |-> 0, reads |-> 0],
             cancelCalls |-> 0]

\* A caller calls loadScript() and awaits the promise it returns; inits holds
\* the callers.
CallLoadScript ==
  /\ Len(inits) < MaxLoadCalls
  /\ LET w == loadScript(World)
     IN Becomes([w EXCEPT !.inits = Append(@, [nonce |-> Null, awaits |-> w.awaits,
                                               pc |-> "await", outcome |-> "none"]),
                          !.awaits = "none"])
  /\ UNCHANGED phase

\* The promise a caller awaits has settled and the caller goes on.
LoadSettles(i) ==
  /\ inits[i].pc = "await"
  /\ LET outcome == IF inits[i].awaits = "resolved" THEN "resolved" ELSE gas.loadPromise
     IN /\ outcome \in {"resolved", "rejected"}
        /\ Becomes([World EXCEPT !.inits[i].pc = "done", !.inits[i].outcome = outcome])
  /\ UNCHANGED phase

ServiceCalls == {k \in DOMAIN hist.initLog : hist.initLog[k].layer = "service"}

CallInitialize(nonce) ==
  /\ Cardinality(ServiceCalls) < MaxInitializeCalls
  /\ Becomes(initialize(World, nonce))
  /\ UNCHANGED phase

CallReset ==
  /\ gas.initialized
  /\ Cardinality(ServiceCalls) < MaxInitializeCalls
  /\ Becomes(reset(World))
  /\ UNCHANGED phase

\* A caller calls cancel(); hist.cancelCalls counts the calls.
CallCancel ==
  /\ hist.cancelCalls < MaxCancelCalls
  /\ Becomes([cancel(World) EXCEPT !.hist.cancelCalls = @ + 1])
  /\ UNCHANGED phase

AdapterNext ==
  \/ CallLoadScript
  \/ ScriptOnload
  \/ ScriptOnerror
  \/ \E i \in DOMAIN inits : LoadSettles(i)
  \/ \E nonce \in Nonces : CallInitialize(nonce)
  \/ CallReset
  \/ CallCancel

SpecAdapter == AdapterInit /\ [][AdapterNext]_vars

---------------------------------------------------------------------------
(* bridgeService on its own: its methods on any response *)

\* Responses of POST /api/auth/bridge, field by field.
HydrationInputs ==
  { [net |-> FALSE, ok |-> FALSE, status |-> 0, json |-> FALSE, success |-> FALSE,
     salt |-> Undefined, address |-> Undefined, message |-> Null, text |-> ""] }
  \cup
  { [net |-> TRUE, ok |-> o, status |-> IF o THEN 200 ELSE 500, json |-> j,
     success |-> sc, salt |-> sa, address |-> ad, message |-> m, text |-> "Forbidden"] :
      o \in BOOLEAN, j \in BOOLEAN, sc \in BOOLEAN,
      sa \in {Undefined, <<>>, Salt42}, ad \in {Undefined, <<>>, AddrDead},
      m \in {Null, "denied"} }

\* Responses of POST /.auth/login/google, field by field; body is the text of
\* the response.
ExchangeInputs ==
  { [net |-> FALSE, ok |-> FALSE, status |-> 0, statusText |-> "", body |-> "",
     authenticationToken |-> Undefined] }
  \cup
  { [net |-> TRUE, ok |-> TRUE, status |-> 200, statusText |-> "OK", body |-> "{...}",
     authenticationToken |-> t] : t \in {Undefined, <<>>, Sess1, Sess2} }
  \cup
  { [net |-> TRUE, ok |-> FALSE, status |-> st, statusText |-> "Unauthorized",
     body |-> b, authenticationToken |-> t] :
      st \in {401, 500}, b \in {"", "invalid token", "expired token"},
      t \in {Undefined, Sess1} }

\* clearSession()
clearSession(w) == [w EXCEPT !.svc.sessionToken = Undefined]

\* svc.last: the last call of a method, its response and what came of it.
BridgeInit ==
  /\ phase = "live"
  /\ url = [search |-> EmptyQuery, hash |-> EmptyHash]
  /\ env = [clientId |-> "cid", backendUrl |-> Null]
  /\ runtimeConfig = NoConfig
  /\ storage = [bridge_source |-> Null, bridge_nonce |-> Null]
  /\ nonceRef = Null
  /\ state = BridgeState("idle", "Initializing Bridge...", Null, NoData)
  /\ gas = [initialized |-> FALSE, scriptLoaded |-> FALSE, loadPromise |-> "none"]
  /\ dom = [scripts |-> 0, button |-> FALSE]
  /\ gis = [present |-> FALSE, nonce |-> Null, popups |-> 0, cancels |-> 0]
  /\ svc = [sessionToken |-> Undefined, last |-> [call |-> "none"]]
  /\ inits = <<>>
  /\ runs = <<>>
  /\ nav = [url |-> Undefined, kind |-> "none", count |-> 0]
  /\ hist = [launch |-> [source |-> Null, nonce |-> Null],
             initLog |-> <<>>, clicks |-> 0, app |-> "bridge", net |-> {},
             creds |-> 0, hashParses |-> 0,
             marker |-> [writes |-> 0, reads |-> 0]]

CallExchange(resp) ==
  /\ LET x == exchangeGoogleTokenForAzureSession(resp)
     IN Becomes([World EXCEPT
                   !.svc.sessionToken = IF x.throws = Null THEN x.token ELSE @,
                   !.svc.last = [call |-> "exchange", resp |-> resp, result |-> x]])
  /\ UNCHANGED phase

CallHydrate(resp) ==
  /\ Becomes([World EXCEPT
                !.svc.last = [call |-> "hydrate", resp |-> resp,
                              result |-> hydrateUserData(resp)]])
  /\ UNCHANGED phase

CallClearSession ==
  /\ svc.sessionToken # Undefined
  /\ Becomes([clearSession(World) EXCEPT !.svc.last = [call |-> "clearSession"]])
  /\ UNCHANGED phase

BridgeNext ==
  \/ \E resp \in ExchangeInputs : CallExchange(resp)
  \/ \E resp \in HydrationInputs : CallHydrate(resp)
  \/ CallClearSession

SpecBridge == BridgeInit /\ [][BridgeNext]_vars


---------------------------------------------------------------------------
(* buildDeeplink on its own: ejectToObsidian is called with authentication
   results over an alphabet with reserved, unreserved and non-ASCII
   characters. *)

MaxLen == 2

Alphabet == {"a", "&", "=", "%", "+", " ", "é"}

Strs(n) == UNION {[1..k -> Alphabet] : k \in 1..n}

AuthenticationResults ==
  [jwt : Strs(MaxLen), azureToken : Strs(1), salt : Strs(1), address : Strs(1)]

CodecInit ==
  /\ phase = "live"
  /\ url = [search |-> EmptyQuery, hash |-> EmptyHash]
  /\ env = [clientId |-> "cid", backendUrl |-> Null]
  /\ runtimeConfig = NoConfig
  /\ storage = [bridge_source |-> Null, bridge_nonce |-> Null]
  /\ nonceRef = Null
  /\ \E data \in AuthenticationResults :
       state = BridgeState("ejecting", "Authentication successful. Opening Obsidian...",
                           Null, data)
  /\ gas = [initialized |-> FALSE, scriptLoaded |-> FALSE, loadPromise |-> "none"]
  /\ dom = [scripts |-> 0, button |-> FALSE]
  /\ gis = [present |-> FALSE, nonce |-> Null, popups |-> 0, cancels |-> 0]
  /\ svc = [sessionToken |-> Undefined]
  /\ inits = <<>>
  /\ runs = <<>>
  /\ nav = [url |-> Undefined, kind |-> "none", count |-> 0]
  /\ hist = [launch |-> [source |-> Null, nonce |-> Null],
             initLog |-> <<>>, clicks |-> 0, app |-> "codec", net |-> {},
             creds |-> 0, hashParses |-> 0,
             marker |-> [writes |-> 0, reads |-> 0]]

CallEjectToObsidian ==
  /\ nav.count = 0
  /\ Becomes(ejectToObsidian(World, state.data))
  /\ UNCHANGED phase

SpecCodec == CodecInit /\ [][CallEjectToObsidian]_vars

---------------------------------------------------------------------------
(* parseObsidianParams on its own: it is applied to the query of the page. *)

ParseInputs ==
  [source : {Null, "", "obsidian", "other"},
   nonce : {Null, "", "abc123", "n2"},
   redirect : {Null, "", "true", "TRUE", "1"},
   prompt : {Null, "", "consent", "none"}]

NotParsed == [call |-> "none"]

\* hist.parsed: what parseObsidianParams returned.
ParseInit ==
  /\ phase = "live"
  /\ url \in [search : ParseInputs, hash : {EmptyHash}]
  /\ env = [clientId |-> "cid", backendUrl |-> Null]
  /\ runtimeConfig = NoConfig
  /\ storage = [bridge_source |-> Null, bridge_nonce |-> Null]
  /\ nonceRef = Null
  /\ state = BridgeState("idle", "Initializing Bridge...", Null, NoData)
  /\ gas = [initialized |-> FALSE, scriptLoaded |-> FALSE, loadPromise |-> "none"]
  /\ dom = [scripts |-> 0, button |-> FALSE]
  /\ gis = [present |-> FALSE, nonce |-> Null, popups |-> 0, cancels |-> 0]
  /\ svc = [sessionToken |-> Undefined]
  /\ inits = <<>>
  /\ runs = <<>>
  /\ nav = [url |-> Undefined, kind |-> "none", count |-> 0]
  /\ hist = [launch |-> [source |-> url.search.source, nonce |-> url.search.nonce],
             initLog |-> <<>>, clicks |-> 0, app |-> "parse", net |-> {},
             creds |-> 0, hashParses |-> 0,
             marker |-> [writes |-> 0, reads |-> 0],
             parsed |-> NotParsed]

CallParseObsidianParams ==
  /\ hist.parsed = NotParsed
  /\ Becomes([World EXCEPT !.hist.parsed = parseObsidianParams(url.search)])
  /\ UNCHANGED phase

SpecParse == ParseInit /\ [][CallParseObsidianParams]_vars

---------------------------------------------------------------------------
(* The callback-based App launched with the optional parameters redirect and
   prompt; hist.launch keeps them as well. *)

Prompts == {Null, "consent", "none"}

Redirects == {Null, "true", "false"}

PromptInit ==
  /\ phase = "load"
  /\ url \in [search : [source : {"obsidian"}, nonce : {"abc123"},
                        redirect : Redirects, prompt : Prompts],
              hash : [funcKey : {"k1"}, backendUrl : {Null}, clientId : {Null},
                      id_token : {Undefined}]]
  /\ env = [clientId |-> "cid", backendUrl |-> Null]
  /\ runtimeConfig = NoConfig
  /\ storage = [bridge_source |-> Null, bridge_nonce |-> Null]
  /\ nonceRef = Null
  /\ state = BridgeState("idle", "Initializing Bridge...", Null, NoData)
  /\ gas = [initialized |-> FALSE, scriptLoaded |-> FALSE, loadPromise |-> "none"]
  /\ dom = [scripts |-> 0, button |-> FALSE]
  /\ gis \in [present : BOOLEAN, nonce : {Null}, popups : {0}, cancels : {0}]
  /\ svc = [sessionToken |-> Undefined]
  /\ inits = <<>>
  /\ runs = <<>>
  /\ nav = [url |-> Undefined, kind |-> "none", count |-> 0]
  /\ hist = [launch |-> [source |-> url.search.source, nonce |-> url.search.nonce,
                         redirect |-> url.search.redirect,
                         prompt |-> url.search.prompt],
             initLog |-> <<>>, clicks |-> 0, app |-> "callback", net |-> {},
             creds |-> 0, hashParses |-> 0,
             marker |-> [writes |-> 0, reads |-> 0]]

SpecPrompt == PromptInit /\ [][Next]_vars

---------------------------------------------------------------------------
(* Properties *)

ValidLaunch == hist.launch.source = "obsidian" /\ ~Falsy(hist.launch.nonce)

\* C1: on a launch with source=obsidian and a non-empty nonce, every initialize
\* call, of googleAuthService and of the provider, gets exactly the nonce of
\* the launch query.
C1_InitializeGetsLaunchNonce ==
  ValidLaunch =>
    \A k \in DOMAIN hist.initLog : hist.initLog[k].nonce = hist.launch.nonce

C1_Witness ==
  /\ ValidLaunch
  /\ \E k \in DOMAIN hist.initLog : hist.initLog[k].layer = "provider"
  /\ gis.nonce = hist.launch.nonce

\* C2: a run issues the hydration RPC only after its own session exchange came
\* back HTTP-success with a token, and as its second call; a run whose
\* exchange failed never issues it, and when that run is the only one the
\* status is error.
C2_HydrationAfterExchange ==
  \A r \in DOMAIN runs :
    /\ "hydrate" \in {runs[r].calls[k] : k \in DOMAIN runs[r].calls} =>
         /\ runs[r].calls = <<"exchange", "hydrate">>
         /\ runs[r].exchOk
         /\ runs[r].pc \in {"hydrate", "timer"} => ~FalsySeq(runs[r].exchToken)
    /\ runs[r].pc = "failedExchange" =>
         /\ runs[r].calls = <<"exchange">>
         /\ Len(runs) = 1 => state.status = "error"

C2_Witness ==
  /\ Len(runs) = 2
  /\ runs[1].pc = "failedExchange"
  /\ runs[2].pc = "hydrate"

DataWhole(data) ==
  data # NoData =>
    /\ ~FalsySeq(data.jwt)
    /\ ~FalsySeq(data.azureToken)
    /\ ~FalsySeq(data.salt)
    /\ ~FalsySeq(data.address)

Failed(run) == run.pc \in {"failedExchange", "failedHydrate"}

Ejected(run) == run.pc \in {"timer", "done"}

\* C4: the step in which a run's exchange or hydration fails sets status error
\* with data undefined and navigates nowhere, a failed run has navigated
\* nowhere (there are as many navigations as runs whose two RPCs succeeded),
\* and data is never a partial AuthenticationResult.
C4_FailureIsErrorWithoutData ==
  /\ [][\A r \in DOMAIN runs :
          (~Failed(runs[r]) /\ Failed(runs'[r])) =>
            /\ state'.status = "error"
            /\ state'.data = NoData
            /\ nav' = nav
       ]_vars
  /\ [](nav.count = Cardinality({r \in DOMAIN runs : Ejected(runs[r])}))
  /\ []DataWhole(state.data)

C4_Witness ==
  /\ Len(runs) = 2
  /\ runs[1].pc = "failedHydrate"
  /\ runs[2].pc = "failedExchange"
  /\ state.status = "error"
  /\ state.data = NoData

Rank(status) ==
  CASE status = "idle" -> 0
    [] status = "initializing" -> 1
    [] status = "ready" -> 2
    [] status = "authenticating" -> 3
    [] status = "exchanging" -> 4
    [] status = "hydrating" -> 5
    [] status = "ejecting" -> 6
    [] status = "success" -> 7
    [] status = "error" -> 8

\* C5: every change of status moves forward along idle, initializing, ready,
\* authenticating, exchanging, hydrating, ejecting, success, or goes to error.
C5_ForwardOnly ==
  [][\/ state'.status = state.status
     \/ state'.status = "error"
     \/ (state.status # "error" /\ Rank(state.status) < Rank(state'.status))
    ]_vars

\* C6: once status is error it stays error.
C6_ErrorIsTerminal ==
  [][state.status = "error" => state'.status = "error"]_vars

\* C7: ejecting is entered only from hydrating, hydrating only from exchanging,
\* exchanging only from authenticating, authenticating only from ready.
C7_NoStateSkipped ==
  [][/\ (state'.status = "ejecting" /\ state.status # "ejecting") =>
          state.status = "hydrating"
     /\ (state'.status = "hydrating" /\ state.status # "hydrating") =>
          state.status = "exchanging"
     /\ (state'.status = "exchanging" /\ state.status # "exchanging") =>
          state.status = "authenticating"
     /\ (state'.status = "authenticating" /\ state.status # "authenticating") =>
          state.status = "ready"
    ]_vars

ExampleDeeplink ==
  <<"o", "b", "s", "i", "d", "i", "a", "n", ":", "/", "/", "e", "n", "o",
     "k", "i", "-", "a", "u", "t", "h", "?", "j", "w", "t", "=", "t", "o",
     "k", "1", "&", "a", "z", "u", "r", "e", "_", "t", "o", "k", "e", "n",
     "=", "s", "e", "s", "s", "1", "&", "s", "a", "l", "t", "=", "4", "2",
     "&", "a", "d", "d", "r", "e", "s", "s", "=", "0", "x", "D", "E", "A",
     "D">>

\* C8: a run whose two RPCs succeeded navigates, in the step its hydration
\* returns, to the deeplink of exactly its credential, the token its exchange
\* returned and the salt and address its hydration returned; for tok1 / sess1 /
\* 42 / 0xDEAD that is
\* obsidian://enoki-auth?jwt=tok1&azure_token=sess1&salt=42&address=0xDEAD;
\* and once the delay timer is pending the status becomes success.
C8_EjectsAndSucceeds ==
  /\ [][\A r \in DOMAIN runs :
          (runs[r].pc = "hydrate" /\ runs'[r].pc = "timer") =>
            /\ ~FalsySeq(runs[r].cred)
            /\ nav'.count = nav.count + 1
            /\ nav'.url =
                 buildDeeplink([jwt |-> runs[r].cred,
                                azureToken |-> runs[r].exchToken,
                                salt |-> runs'[r].hydSalt,
                                address |-> runs'[r].hydAddress])
            /\ (/\ runs[r].cred = Tok1
                /\ runs[r].exchToken = Sess1
                /\ runs'[r].hydSalt = Salt42
                /\ runs'[r].hydAddress = AddrDead) => nav'.url = ExampleDeeplink
       ]_vars
  /\ ((\E r \in DOMAIN runs : runs[r].pc = "timer") ~> state.status = "success")

C8_Witness ==
  /\ hist.launch = [source |-> "obsidian", nonce |-> "abc123"]
  /\ Len(runs) = 1
  /\ runs[1].pc = "done"
  /\ nav = [url |-> ExampleDeeplink, kind |-> "deeplink", count |-> 1]
  /\ state.status = "success"
  /\ state.data.jwt = Tok1

\* Splitting a URL: the elements before the first c, and after it.
IndexOf(s, c) ==
  IF \E k \in DOMAIN s : s[k] = c
    THEN CHOOSE k \in DOMAIN s : s[k] = c /\ \A j \in 1..(k - 1) : s[j] # c
    ELSE 0

Before(s, c) == IF IndexOf(s, c) = 0 THEN s ELSE SubSeq(s, 1, IndexOf(s, c) - 1)

After(s, c) == IF IndexOf(s, c) = 0 THEN <<>> ELSE SubSeq(s, IndexOf(s, c) + 1, Len(s))

RECURSIVE Split(_, _)
Split(s, c) ==
  IF IndexOf(s, c) = 0 THEN <<s>> ELSE <<Before(s, c)>> \o Split(After(s, c), c)

\* The query fields of a URL, in order: [name, value] with value still encoded.
QueryFields(u) ==
  LET parts == Split(After(u, "?"), "&")
  IN [k \in DOMAIN parts |->
        [name |-> Before(parts[k], "="), value |-> After(parts[k], "=")]]

FullDeeplink(u) ==
  LET f == QueryFields(u)
  IN /\ Before(u, "?") = DeeplinkProtocol \o <<":", "/", "/">> \o DeeplinkCallback
     /\ Len(f) = 4
     /\ f[1].name = <<"j", "w", "t">> /\ f[1].value # <<>>
     /\ f[2].name = <<"a", "z", "u", "r", "e", "_", "t", "o", "k", "e", "n">>
     /\ f[2].value # <<>>
     /\ f[3].name = <<"s", "a", "l", "t">> /\ f[3].value # <<>>
     /\ f[4].name = <<"a", "d", "d", "r", "e", "s", "s">> /\ f[4].value # <<>>

\* The fallback link on the page, Undefined when there is none.
RenderedLink ==
  IF hist.app = "callback" THEN FallbackLink(state) ELSE redirectFallbackLink(state)

\* C9: every deeplink navigated to or rendered as the fallback link is
\* obsidian://enoki-auth with the four fields jwt, azure_token, salt and
\* address, each non-empty.
C9_DeeplinkHasFourFields ==
  /\ nav.kind = "deeplink" => FullDeeplink(nav.url)
  /\ RenderedLink # Undefined => FullDeeplink(RenderedLink)

\* C10: whenever status is success, data holds the four fields of the run that
\* ejected last, and the fallback link is the deeplink last navigated to.
C10_SuccessShowsTheDeeplink ==
  state.status = "success" =>
    /\ state.data # NoData
    /\ DataWhole(state.data)
    /\ nav.count > 0
    /\ FallbackLink(state) = nav.url

\* The launch query as the page was loaded with it.
LaunchQuery ==
  [EmptyQuery EXCEPT !.source = hist.launch.source, !.nonce = hist.launch.nonce]

CleanUrl == [search |-> EmptyQuery, hash |-> EmptyHash]

\* C11: on a launch whose query is malformed (source missing or not obsidian,
\* nonce missing or empty) parseObsidianParams yields Invalid and the status is
\* idle throughout.
C11_MalformedLaunchStaysIdle ==
  ~ValidLaunch =>
    /\ parseObsidianParams(LaunchQuery) = Invalid
    /\ state.status = "idle"

\* C12: on an invalid launch no network call is ever started: no script
\* element is appended, initializeGoogleSignIn never runs, and no exchange and
\* no hydration is issued.
C12_InvalidLaunchNoNetwork ==
  ~ValidLaunch =>
    /\ hist.net = {}
    /\ dom.scripts = 0
    /\ inits = <<>>
    /\ runs = <<>>

C12_Witness ==
  /\ hist.launch = [source |-> "obsidian", nonce |-> Null]
  /\ phase = "live"
  /\ state.status = "idle"
  /\ state.message = IdleMessage

\* C13: without a non-empty nonce in the launch query the provider's
\* initialize is never called, the browser is never sent to Google's
\* authorization URL, and no login button linking to it is shown.
C13_NoSignInWithoutNonce ==
  Falsy(hist.launch.nonce) =>
    /\ \A k \in DOMAIN hist.initLog : hist.initLog[k].layer # "provider"
    /\ nav.kind # "auth"
    /\ ~(/\ hist.app = "redirect"
         /\ state.status = "ingest"
         /\ state.data # NoData
         /\ state.data.jwt # <<>>)

\* C14: every network call (script load, session exchange, hydration) starts
\* with the visible URL carrying neither query nor hash, and once a launch has
\* been parsed the URL stays without them.
C14_UrlStrippedBeforeNetwork ==
  /\ \A n \in hist.net : n.url = CleanUrl
  /\ inits # <<>> => url = CleanUrl

C14_Witness ==
  /\ ValidLaunch
  /\ {n.call : n \in hist.net} = {"script", "exchange", "hydrate"}
  /\ url = CleanUrl

\* C15: the teardown calls the provider's cancel(), and after it no step
\* changes BridgeState or starts a backend RPC: a callback that arrives late
\* starts no exchange and a run that was in flight issues no further call.
C15_NothingAfterTeardown ==
  [][/\ (phase = "live" /\ phase' = "gone" /\ gis.present) =>
          gis'.cancels = gis.cancels + 1
     /\ phase = "gone" =>
          /\ state' = state
          /\ \A r \in DOMAIN runs' :
               IF r \in DOMAIN runs THEN runs'[r].calls = runs[r].calls
                                    ELSE runs'[r].calls = <<>>
    ]_vars

\* The runs with a backend RPC in flight.
InFlight == {r \in DOMAIN runs : runs[r].pc \in {"exchange", "hydrate"}}

\* C16: at most one backend RPC of the page is in flight at any moment.
C16_OneRpcInFlight == Cardinality(InFlight) <= 1

\* C17: however loadScript is called, at most one script element is ever
\* appended; a call made while a load is pending or settled appends nothing
\* and gets that load's promise, so all such callers see one outcome; a call
\* made after a successful load returns at once.
C17_OneScriptLoad ==
  /\ [](dom.scripts <= 1)
  /\ [](\A i \in DOMAIN inits :
          /\ inits[i].awaits = "resolved" => gas.scriptLoaded
          /\ inits[i].pc = "done" /\ inits[i].awaits = "shared" =>
               inits[i].outcome = gas.loadPromise)
  /\ [][(Len(inits') = Len(inits) + 1 /\ (gas.scriptLoaded \/ gas.loadPromise # "none")) =>
          /\ dom' = dom
          /\ gas' = gas
          /\ inits'[Len(inits')].awaits =
               IF gas.scriptLoaded THEN "resolved" ELSE "shared"
       ]_vars

C17_Witness ==
  /\ hist.app = "adapter"
  /\ Len(inits) = 3
  /\ dom.scripts = 1
  /\ inits[1].awaits = "shared" /\ inits[1].outcome = "resolved"
  /\ inits[2].awaits = "shared" /\ inits[2].outcome = "resolved"
  /\ inits[3].awaits = "resolved"

\* C18: a call of initialize made while the provider is not loaded, or with an
\* empty nonce, calls no provider initialize and leaves the adapter as it was
\* (not marked initialized); a provider initialize always gets the nonce of
\* the call, and that nonce is not empty.
C18_InitializeFails ==
  [][Len(hist.initLog') > Len(hist.initLog) =>
       LET call == hist.initLog'[Len(hist.initLog) + 1]
           fails == ~gis.present \/ Falsy(call.nonce)
       IN /\ call.layer = "service"
          /\ fails =>
               /\ Len(hist.initLog') = Len(hist.initLog) + 1
               /\ gis' = gis
               /\ gas' = gas
          /\ ~fails =>
               /\ Len(hist.initLog') = Len(hist.initLog) + 2
               /\ hist.initLog'[Len(hist.initLog) + 2] =
                    [layer |-> "provider", nonce |-> call.nonce]
               /\ gis'.nonce = call.nonce
               /\ gas'.initialized
    ]_vars

C18_Witness ==
  /\ hist.app = "adapter"
  /\ hist.initLog = <<[layer |-> "service", nonce |-> "abc123"],
                      [layer |-> "service", nonce |-> ""]>>
  /\ gis.present
  /\ gas.scriptLoaded
  /\ ~gas.initialized
  /\ gis.nonce = Null

ScriptLoadFailed == "Failed to load Google Identity Services script"

InitializeFailed ==
  {"Google Identity Services not loaded", "Nonce is required for zkLogin authentication"}

\* What C19 says of a step, with the statuses a failing run may leave.
InitRunStep(from) ==
  /\ (state'.status = "ready" /\ state.status # "ready") =>
       \E i \in DOMAIN inits :
         /\ inits[i].pc = "await" /\ inits'[i].pc = "done"
         /\ inits'[i].outcome = "resolved"
         /\ gas'.initialized
         /\ gis'.present
         /\ hist'.initLog = hist.initLog \o
              <<[layer |-> "service", nonce |-> inits[i].nonce],
                [layer |-> "provider", nonce |-> inits[i].nonce]>>
  /\ \A i \in DOMAIN inits :
       (inits[i].pc = "await" /\ inits'[i].pc = "done") =>
         LET loadFailed == inits'[i].outcome = "rejected"
             initializeFailed ==
               ~loadFailed /\ Len(hist'.initLog) = Len(hist.initLog) + 1
         IN /\ loadFailed =>
                 /\ state.status \in from
                 /\ state'.status = "error"
                 /\ state'.error = ScriptLoadFailed
                 /\ hist'.initLog = hist.initLog
            /\ initializeFailed =>
                 /\ state.status \in from
                 /\ state'.status = "error"
                 /\ state'.error \in InitializeFailed
                 /\ state'.error # ScriptLoadFailed
                 /\ ~gas'.initialized
            /\ (~loadFailed /\ ~initializeFailed) => state'.status = "ready"

C20_HydrateAllOrNothing ==
  svc.last.call = "hydrate" =>
    LET resp == svc.last.resp
        result == svc.last.result
        whole == /\ resp.net /\ resp.ok /\ resp.success
                 /\ ~FalsySeq(resp.salt) /\ ~FalsySeq(resp.address)
    IN /\ (result.throws = Null) <=> whole
       /\ whole => result.salt = resp.salt /\ result.address = resp.address
       /\ ~whole => result.salt = Undefined /\ result.address = Undefined

C20_Witness ==
  /\ hist.app = "bridge"
  /\ svc.last.call = "hydrate"
  /\ svc.last.resp.ok /\ svc.last.resp.success
  /\ svc.last.resp.salt = Undefined
  /\ svc.last.resp.address = AddrDead
  /\ svc.last.result.throws = "Invalid response from bridge service"

\* C21: exchangeGoogleTokenForAzureSession returns exactly when the response
\* is HTTP-success and its authenticationToken is non-empty, and then returns
\* (and keeps as session token) that very value; on every other response,
\* an HTTP-success one without the field included, it throws.
C21_ExchangeReturnsTheToken ==
  svc.last.call = "exchange" =>
    LET resp == svc.last.resp
        result == svc.last.result
        good == resp.net /\ resp.ok /\ ~FalsySeq(resp.authenticationToken)
    IN /\ (result.throws = Null) <=> good
       /\ good => /\ result.token = resp.authenticationToken
                  /\ svc.sessionToken = resp.authenticationToken
       /\ ~good => result.token = Undefined

C21_Witness ==
  /\ hist.app = "bridge"
  /\ svc.last.call = "exchange"
  /\ svc.last.resp.ok
  /\ svc.last.resp.authenticationToken = <<>>
  /\ svc.last.result.throws = "No authenticationToken in Azure Easy Auth response"
  /\ svc.sessionToken = Sess2

\* C22: the failure raised on a non-success HTTP status carries the status
\* code and the response body; at the least, then, two such responses that
\* differ in the status or in the body raise different failures.
C22_FailureCarriesStatusAndBody ==
  (svc.last.call = "exchange" /\ svc.last.resp.net /\ ~svc.last.resp.ok) =>
    \A other \in ExchangeInputs :
      (/\ other.net /\ ~other.ok
       /\ (other.status # svc.last.resp.status \/ other.body # svc.last.resp.body)) =>
        exchangeGoogleTokenForAzureSession(other).throws # svc.last.result.throws

\* The RPCs issued so far, one element for each.
Rpcs(rs, name) ==
  {<<r, k>> \in (DOMAIN rs) \X (1..2) : k \in DOMAIN rs[r].calls /\ rs[r].calls[k] = name}

\* Some script load, initialize, exchange or hydration has failed.
SomeFailure ==
  \/ \E r \in DOMAIN runs : Failed(runs[r])
  \/ \E i \in DOMAIN inits :
       /\ inits[i].pc = "done"
       /\ inits[i].outcome = "rejected" \/ ~gas.initialized

\* The step in which a failure is observed sets status error with its message.
C23_FailureSetsError ==
  [][/\ \A r \in DOMAIN runs :
          (~Failed(runs[r]) /\ Failed(runs'[r])) =>
            state'.status = "error" /\ state'.error # Null
     /\ \A i \in DOMAIN inits :
          (/\ inits[i].pc = "await" /\ inits'[i].pc = "done"
           /\ inits'[i].outcome = "rejected" \/ ~gas'.initialized) =>
            state'.status = "error" /\ state'.error # Null
    ]_vars

\* After a failure no script load and no RPC starts, unless the provider
\* delivers a new credential in that very step; a run that has failed stays
\* as it is.
C23_NothingStartsAfterFailure ==
  [][SomeFailure =>
       /\ dom'.scripts = dom.scripts
       /\ hist'.creds = hist.creds =>
            /\ Rpcs(runs', "exchange") = Rpcs(runs, "exchange")
            /\ Rpcs(runs', "hydrate") = Rpcs(runs, "hydrate")
       /\ \A r \in DOMAIN runs : Failed(runs[r]) => runs'[r] = runs[r]
    ]_vars

C23_CallsBounded ==
  /\ Cardinality(Rpcs(runs, "exchange")) <= hist.creds
  /\ Cardinality(Rpcs(runs, "hydrate")) <=
       Cardinality({r \in DOMAIN runs : runs[r].exchOk})

\* C23: no failure is retried or swallowed: the step in which a script load,
\* initialize, exchange or hydration fails sets status error; after a failure
\* the bridge starts no script load and no RPC on its own (only a credential
\* the provider delivers starts one); there are never more exchange calls than
\* non-empty credentials delivered, nor more hydration calls than successful
\* exchanges.
C23_NoRetryNoSwallow ==
  /\ C23_FailureSetsError
  /\ C23_NothingStartsAfterFailure
  /\ []C23_CallsBounded

\* C24: a run sets its timer once, in the step that navigates, and that step
\* navigates once; the timer fires at most once, and when it fires only status
\* and message change (data, error, the navigation and everything else of the
\* page stay); a run whose timer has fired does nothing more.
C24_TimerOncePerSuccessfulRun ==
  /\ [][\A r \in DOMAIN runs :
          /\ (runs[r].pc # "timer" /\ runs'[r].pc = "timer") =>
               /\ runs[r].pc = "hydrate"
               /\ nav'.count = nav.count + 1
               /\ nav'.kind = "deeplink"
               /\ state'.status = "ejecting"
          /\ (runs[r].pc = "timer" /\ runs'[r] # runs[r]) =>
               /\ runs'[r].pc = "done"
               /\ state' = [state EXCEPT
                              !.status = "success",
                              !.message = "If Obsidian did not open, click the button below."]
               /\ nav' = nav
               /\ svc' = svc
               /\ storage' = storage
               /\ url' = url
               /\ \A q \in DOMAIN runs : q # r => runs'[q] = runs[q]
          /\ runs[r].pc = "done" => runs'[r] = runs[r]
       ]_vars
  /\ [](nav.count = Cardinality({r \in DOMAIN runs : runs[r].pc \in {"timer", "done"}}))

C24_Witness ==
  /\ hist.app = "callback"
  /\ Len(runs) = 1
  /\ runs[1].pc = "done"
  /\ nav.count = 1
  /\ state.status = "success"
  /\ state.data # NoData
  /\ state.data.jwt = Tok2
  /\ state.data.azureToken = Sess2

\* Percent-decoding of a query field (decodeURIComponent): %XX is a byte, and
\* the bytes are read as UTF-8.
PercentByte(hex) ==
  CASE hex = <<"2", "6">> -> "&"
    [] hex = <<"3", "D">> -> "="
    [] hex = <<"2", "5">> -> "%"
    [] hex = <<"2", "B">> -> "+"
    [] hex = <<"2", "F">> -> "/"
    [] hex = <<"3", "F">> -> "?"
    [] hex = <<"2", "3">> -> "#"
    [] hex = <<"2", "0">> -> " "
    [] OTHER -> "<malformed>"

RECURSIVE PercentDecode(_)
PercentDecode(s) ==
  IF s = <<>> THEN <<>>
  ELSE IF s[1] # "%" THEN <<s[1]>> \o PercentDecode(Tail(s))
  ELSE IF Len(s) >= 6 /\ SubSeq(s, 1, 6) = <<"%", "C", "3", "%", "A", "9">>
    THEN <<"é">> \o PercentDecode(SubSeq(s, 7, Len(s)))
  ELSE IF Len(s) >= 3
    THEN <<PercentByte(SubSeq(s, 2, 3))>> \o PercentDecode(SubSeq(s, 4, Len(s)))
  ELSE <<"<malformed>">>

\* The four values a receiver reads from a deeplink.
Decoded(u) ==
  LET f == QueryFields(u)
  IN [jwt |-> PercentDecode(f[1].value), azureToken |-> PercentDecode(f[2].value),
      salt |-> PercentDecode(f[3].value), address |-> PercentDecode(f[4].value)]

\* C25: splitting the query of buildDeeplink(data) into its fields and
\* percent-decoding each gives back the four values of data.
C25_RoundTrip ==
  (hist.app = "codec" /\ nav.kind = "deeplink") => Decoded(nav.url) = state.data

\* C26: the identity token goes through untransformed: the id_token of a
\* run's exchange request, the idToken of its hydration request, the jwt of
\* the AuthenticationResult it sets and the jwt a receiver reads from the
\* deeplink it navigates to are the credential its callback delivered.
C26_IdentityTokenUntransformed ==
  /\ [](\A r \in DOMAIN runs :
          /\ runs[r].pc \in {"exchange", "hydrate", "timer"} =>
               /\ Len(runs[r].requests) >= 1
               /\ runs[r].requests[1].id_token = runs[r].cred
          /\ runs[r].pc \in {"hydrate", "timer"} =>
               /\ Len(runs[r].requests) = 2
               /\ runs[r].requests[2].idToken = runs[r].cred)
  /\ [][\A r \in DOMAIN runs :
          (runs[r].pc = "hydrate" /\ runs'[r].pc = "timer") =>
            /\ state'.data.jwt = runs[r].cred
            /\ Decoded(nav'.url).jwt = runs[r].cred
       ]_vars

C26_Witness ==
  /\ hist.app = "callback"
  /\ Len(runs) = 1
  /\ runs[1].pc = "timer"
  /\ runs[1].cred = Tok2
  /\ runs[1].requests[1].id_token = Tok2
  /\ runs[1].requests[2].idToken = Tok2
  /\ state.data.jwt = Tok2
  /\ Decoded(nav.url).jwt = Tok2

C28_NoSessionTokenAfterRun ==
  (/\ state.status \in {"success", "error"}
   /\ \A r \in DOMAIN runs : runs[r].pc \notin {"exchange", "hydrate", "timer"}) =>
    svc.sessionToken = Undefined

C30_PromptHandedToProvider ==
  (hist.launch.prompt # Null /\ gas.initialized /\ gis.nonce # Null) =>
    LET cfg == initializeConfig(runtimeConfig, gis.nonce)
    IN \/ "prompt" \in DOMAIN cfg /\ cfg.prompt = hist.launch.prompt
       \/ "prompt" \in DOMAIN buttonOptions
            /\ buttonOptions.prompt = hist.launch.prompt

\* The sign-ins started so far: those open at the provider and those it has
\* ended with a callback.
Started == gis.popups + Len(runs)

\* C31: on a launch with redirect=true the sign-in is started without a click
\* once the provider is initialized: by the time the button is on the page,
\* more sign-ins have been started than the user has asked for; on a launch
\* without redirect=true there are never more sign-ins than clicks.
C31_RedirectStartsSignIn ==
  /\ hist.launch.redirect # "true" => Started <= hist.clicks
  /\ (/\ hist.launch.redirect = "true"
      /\ gas.initialized
      /\ state.status = "ready"
      /\ dom.button) => Started > hist.clicks

\* C32: after a callback without a credential the page comes back to the
\* sign-in button: when that callback is all that has happened and no sign-in
\* is open, the status is ready, where the button is rendered.
C32_CancelledShowsButtonAgain ==
  (/\ hist.app = "callback"
   /\ Len(runs) = 1
   /\ runs[1].pc = "noCredential"
   /\ gis.popups = 0) =>
    /\ state.status = "ready"
    /\ gas.initialized
    /\ gis.present

\* C33: in the redirect-based App a page load with an id_token in the hash,
\* in a tab whose sessionStorage has no bridge_source "obsidian", calls the
\* backend for nothing and navigates to no deeplink.
C33_CallbackWithoutMarkerFails ==
  (hist.app = "redirect" /\ storage.bridge_source # "obsidian") =>
    /\ runs = <<>>
    /\ nav.kind # "deeplink"

\* C34: a call of cancel(), in whatever state the adapter is, changes nothing
\* of the adapter (loaded and initialized flags, the load under way), of the
\* DOM and of the awaiting callers; it is forwarded to the provider when the
\* provider is there, and does nothing at all when it is not.
C34_CancelIsSafe ==
  [][hist'.cancelCalls = hist.cancelCalls + 1 =>
       /\ gas' = gas
       /\ dom' = dom
       /\ inits' = inits
       /\ hist'.initLog = hist.initLog
       /\ gis.present => gis' = [gis EXCEPT !.cancels = @ + 1]
       /\ ~gis.present => gis' = gis
    ]_vars

C34_Witness ==
  /\ hist.app = "adapter"
  /\ hist.cancelCalls = 1
  /\ ~gis.present
  /\ gis.cancels = 0
  /\ gas.loadPromise = "rejected"
  /\ ~gas.initialized
  /\ ~gas.scriptLoaded

\* C39: once loadScript has rejected, the rejection stays: no step starts a new
\* script load or makes the adapter loaded, a later loadScript call gets the
\* adapter's promise, and every caller awaiting it sees the rejection.
C39_FailedLoadIsMemoized ==
  /\ [][gas.loadPromise = "rejected" =>
          /\ gas'.loadPromise = "rejected"
          /\ ~gas'.scriptLoaded
          /\ dom'.scripts = dom.scripts
          /\ Len(inits') = Len(inits) + 1 => inits'[Len(inits')].awaits = "shared"
       ]_vars
  /\ [](gas.loadPromise = "rejected" =>
          /\ ~gas.scriptLoaded
          /\ dom.scripts = 1
          /\ \A i \in DOMAIN inits : inits[i].pc = "done" => inits[i].outcome = "rejected")

C39_Witness ==
  /\ hist.app = "adapter"
  /\ gas.loadPromise = "rejected"
  /\ dom.scripts = 1
  /\ Len(inits) = 3
  /\ \A i \in 1..3 : inits[i].pc = "done" /\ inits[i].outcome = "rejected"

\* C35: the X-ZUMO-AUTH of a run's hydration request, the azureToken of the
\* result it sets and the azure_token a receiver reads from its deeplink are
\* the token the exchange of that same run returned, whatever the service's
\* sessionToken field holds by then.
C35_SessionTokenOfTheSameRun ==
  /\ [](\A r \in DOMAIN runs :
          runs[r].pc \in {"hydrate", "timer"} =>
            /\ ~FalsySeq(runs[r].exchToken)
            /\ runs[r].requests[2].zumoAuth = runs[r].exchToken
            /\ runs[r].azureToken = runs[r].exchToken)
  /\ [][\A r \in DOMAIN runs :
          (runs[r].pc = "hydrate" /\ runs'[r].pc = "timer") =>
            /\ state'.data.azureToken = runs[r].exchToken
            /\ Decoded(nav'.url).azureToken = runs[r].exchToken
       ]_vars

C35_Witness ==
  /\ hist.app = "callback"
  /\ Len(runs) = 2
  /\ runs[1].pc = "timer"
  /\ runs[1].exchToken = Sess1
  /\ runs[2].pc = "hydrate"
  /\ runs[2].exchToken = Sess2
  /\ svc.sessionToken = Sess2
  /\ state.data.azureToken = Sess1
  /\ Decoded(nav.url).azureToken = Sess1

ConfigOk == runtimeConfig # NoConfig /\ validateConfig(runtimeConfig) = Null

ProviderInits == {k \in DOMAIN hist.initLog : hist.initLog[k].layer = "provider"}

\* C36: on a valid launch, whether the init effect has run once or twice
\* (mount, cleanup, mount), one run of initializeGoogleSignIn is under way or
\* done, with the launch nonce; while it awaits the script the status is
\* initializing, or idle after the second run of the effect; when it is done
\* (and no sign-in has come back yet) the status is ready with the provider
\* initialized exactly once with the launch nonce, or error with the provider
\* never initialized.
C36_DoubleInitEndsAsSingle ==
  (phase = "live" /\ ValidLaunch /\ ConfigOk) =>
    /\ Len(inits) = 1
    /\ inits[1].nonce = hist.launch.nonce
    /\ Cardinality(ProviderInits) <= 1
    /\ \A k \in ProviderInits : hist.initLog[k].nonce = hist.launch.nonce
    /\ inits[1].pc = "await" =>
         /\ state.status \in {"initializing", "idle"}
         /\ ProviderInits = {}
    /\ (inits[1].pc = "done" /\ runs = <<>>) =>
         \/ /\ state.status = "ready"
            /\ inits[1].outcome = "resolved"
            /\ gas.initialized
            /\ Cardinality(ProviderInits) = 1
         \/ /\ state.status = "error"
            /\ ~gas.initialized
            /\ ProviderInits = {}

\* The effect has run twice (its cleanup has called cancel on a provider that
\* was there) and the run of the first mount has ended in ready.
C36_Witness ==
  /\ hist.app = "callback"
  /\ ValidLaunch
  /\ gis.cancels = 1
  /\ Len(inits) = 1
  /\ inits[1].pc = "done"
  /\ state.status = "ready"
  /\ Cardinality(ProviderInits) = 1
  /\ runs = <<>>

\* The configuration lacks the function key or the Google client id.
BadConfig ==
  /\ runtimeConfig # NoConfig
  /\ Falsy(runtimeConfig.funcKey) \/ Falsy(runtimeConfig.googleClientId)

ConfigErrors ==
  {"VITE_GOOGLE_CLIENT_ID environment variable is required",
   "Function key is required. The plugin must pass it via URL hash: #funcKey=xxx"}

\* C37: with a configuration that lacks the function key or the client id,
\* the init effect sets error 'Initialization failed' and does nothing else:
\* the URL, sessionStorage, the adapter and the DOM are as before, no run of
\* initializeGoogleSignIn starts and no network call is made; from then on the
\* page stays so, with the launch query, nonce included, in the URL.
C37_BadConfigStopsInit ==
  /\ [][(phase = "boot" /\ phase' = "live" /\ BadConfig) =>
          /\ state'.status = "error"
          /\ state'.message = "Initialization failed"
          /\ state'.error \in ConfigErrors
          /\ state'.data = NoData
          /\ runtimeConfig' = runtimeConfig
          /\ url' = url
          /\ storage' = storage
          /\ nonceRef' = nonceRef
          /\ gas' = gas
          /\ dom' = dom
          /\ inits' = <<>>
          /\ runs' = <<>>
          /\ hist'.net = {}
          /\ hist'.marker = hist.marker
       ]_vars
  /\ []((phase = "live" /\ BadConfig) =>
          /\ state.status = "error"
          /\ url.search.source = hist.launch.source
          /\ url.search.nonce = hist.launch.nonce
          /\ storage = [bridge_source |-> Null, bridge_nonce |-> Null]
          /\ dom.scripts = 0
          /\ inits = <<>>
          /\ runs = <<>>
          /\ hist.net = {}
          /\ hist.initLog = <<>>)

C37_Witness ==
  /\ hist.app = "callback"
  /\ phase = "live"
  /\ BadConfig
  /\ Falsy(runtimeConfig.funcKey)
  /\ runtimeConfig.googleClientId = "cid"
  /\ ValidLaunch
  /\ url.search.nonce = "abc123"
  /\ state.status = "error"
  /\ state.error =
       "Function key is required. The plugin must pass it via URL hash: #funcKey=xxx"

\* C38: the step in which the configuration is read leaves the query string
\* as it was, and the hash too unless it carried a function key (and no
\* id_token), in which case the hash is cleared; so the query the init effect
\* parses is that of the launch; parseConfigFromHash is called at most once in
\* a page load.
C38_HashParsingLeavesQuery ==
  /\ [][(phase = "load" /\ phase' = "boot") =>
          /\ url'.search = url.search
          /\ url'.hash = IF url.hash.id_token = Undefined /\ ~Falsy(url.hash.funcKey)
                           THEN EmptyHash ELSE url.hash
          /\ hist'.hashParses = 1
       ]_vars
  /\ [](phase = "boot" =>
          /\ url.search.source = hist.launch.source
          /\ url.search.nonce = hist.launch.nonce)
  /\ [](hist.hashParses <= 1)
  /\ [](\A i \in DOMAIN inits : inits[i].nonce = hist.launch.nonce)

C38_Witness ==
  /\ hist.app = "callback"
  /\ phase = "live"
  /\ hist.hashParses = 1
  /\ runtimeConfig # NoConfig
  /\ runtimeConfig.funcKey = "k1"
  /\ url.hash = EmptyHash
  /\ Len(inits) = 1
  /\ inits[1].nonce = "n2"
  /\ hist.launch.nonce = "n2"

=============================================================================
